---- MODULE Spec2Model ----
(***************************************************************************)
(* BlockOasis: an escrow ledger (BankDatabase), a claim registry           *)
(* (ClaimsDatabase), a user table (UsersDatabase) and the rollup handlers  *)
(* that drive them (deposit, withdraw, claim, dispute, finalize,           *)
(* validate).  One action per handler; every handler is run to its end,    *)
(* including the point where it raises.                                    *)
(*                                                                         *)
(* Python semantics are kept for every name this repository defines: an    *)
(* attribute that a class of src/model.py or src/inputs.py does not        *)
(* declare raises AttributeError where it is read, and what ran before     *)
(* the raise stays in the module-level databases.                          *)
(*                                                                         *)
(* Four specifications: Spec, the handlers as the rollup drives them;       *)
(* SpecLedger, BankDatabase through its own methods; SpecClaims, the        *)
(* handlers over claims that ClaimsDatabase.create_claim and                *)
(* initiate_dispute have stored; SpecVerify, the proof check on one payload *)
(* and one hash.                                                           *)
(*                                                                         *)
(* Amounts are counted in units of 5 * 10^14 wei (the value of             *)
(* CLAIM_INCENTIVE): the code only adds, subtracts and compares amounts,   *)
(* and the model's inputs are multiples of that unit.                      *)
(***************************************************************************)
EXTENDS Integers, Sequences, FiniteSets, TLC

VARIABLES
    wallets,        \* bank_db.wallets: lower-cased address -> balance
    users,          \* users_db.users: user id (as given) -> User
    claims,         \* claims_db.claims: claim id -> Claim
    next_claim_id,  \* claims_db.next_claim_id
    input_index,    \* number of inputs delivered so far (rollup metadata)
    last,           \* the input (or ledger call) that was handled last
    outcome,        \* how its handler ended
    vouchers        \* the vouchers that handler emitted

vars == <<wallets, users, claims, next_claim_id, input_index, last, outcome, vouchers>>

---------------------------------------------------------------------------
(* Settings (src/setting.py), amounts in units of 5 * 10^14 wei.           *)

COLLATERAL_AMOUNT == 2000
VALIDATOR_STAKING == 8000
CLAIM_INCENTIVE == 1

(* Seconds. *)
CLAIM_EPOCH == 30
DISPUTE_EPOCH == 60

LOCKED_ASSET_ADDRESS == "0x01"
TOKEN_ERC20_ADDRESS == "0xc6e7"
OtherToken == "0x4a67"

(* Python's None. *)
None == "None"

---------------------------------------------------------------------------
(* Bounds and input domains.                                               *)

MaxInputs == 3

(* "0xAA" is the mixed-case spelling of the address "0xaa". *)
Senders == {"0xaa", "0xAA", "0xbb", LOCKED_ASSET_ADDRESS}
(* decode_erc20_deposit renders the depositor with bytes.hex(): lower case. *)
Depositors == {"0xaa", "0xbb", LOCKED_ASSET_ADDRESS}
Tokens == {TOKEN_ERC20_ADDRESS, OtherToken}
DepositAmounts == {0, COLLATERAL_AMOUNT, VALIDATOR_STAKING}
WithdrawAmounts == {-1, 0, 1, COLLATERAL_AMOUNT}
(* data.metadata.timestamp of an input, in seconds. *)
Timestamps == {0, CLAIM_EPOCH, DISPUTE_EPOCH}
(* int(time.time()) on the machine that runs the handler, in seconds. *)
WallClock == {0, 1}

(* A preprocessed_data payload: CSV text with the header line type,       *)
(* sensor_id, water_usage and the given rows; NoData is the empty string,  *)
(* which "not payload.preprocessed_data" rejects.                          *)
Csv(rows) == [empty |-> FALSE, rows |-> rows]
NoData == [empty |-> TRUE, rows |-> <<>>]

(* hashlib.sha256(text).hexdigest(): one digest per text, no collisions. *)
Sha256(text) == [sha256 |-> text]

(* str.lower() on the modelled addresses. *)
Lower(address) == IF address = "0xAA" THEN "0xaa" ELSE address

---------------------------------------------------------------------------
(* BankDatabase (src/bank_db.py).  A ledger call yields the wallets it     *)
(* leaves behind and the exception it raised ("none" when it returned).    *)

Returned(w) == [wallets |-> w, exc |-> "none"]
Raised(w, e) == [wallets |-> w, exc |-> e]

(* _get_wallet: the wallet is created at balance 0 when absent. *)
GetWallet(w, address) ==
    IF Lower(address) \in DOMAIN w THEN w ELSE w @@ (Lower(address) :> 0)

(* balance(address) *)
Balance(w, address) == GetWallet(w, address)[Lower(address)]

(* deposit without the amount check. *)
BankDeposit_NoAmountCheck(w, address, amount) ==
    IF address = None THEN Raised(w, "AttributeError")
    ELSE LET w1 == GetWallet(w, address)
         IN  Returned([w1 EXCEPT ![Lower(address)] = @ + amount])

(* deposit(address, amount); None.lower() raises AttributeError. *)
BankDeposit(w, address, amount) ==
    IF amount <= 0 THEN Raised(w, "invalid amount")
    ELSE IF address = None THEN Raised(w, "AttributeError")
    ELSE LET w1 == GetWallet(w, address)
         IN  Returned([w1 EXCEPT ![Lower(address)] = @ + amount])

(* withdraw without the funds check. *)
BankWithdraw_NoFundsCheck(w, address, amount) ==
    IF amount <= 0 THEN Raised(w, "invalid amount")
    ELSE IF address = None THEN Raised(w, "AttributeError")
    ELSE LET w1 == GetWallet(w, address)
         IN  Returned([w1 EXCEPT ![Lower(address)] = @ - amount])

(* withdraw refusing a withdrawal of the whole balance (<= for <). *)
BankWithdraw_OffByOne(w, address, amount) ==
    IF amount <= 0 THEN Raised(w, "invalid amount")
    ELSE IF address = None THEN Raised(w, "AttributeError")
    ELSE LET w1 == GetWallet(w, address)
         IN  IF w1[Lower(address)] <= amount
             THEN Raised(w1, "insufficient funds")
             ELSE Returned([w1 EXCEPT ![Lower(address)] = @ - amount])

(* withdraw(address, amount) *)
BankWithdraw(w, address, amount) ==
    IF amount <= 0 THEN Raised(w, "invalid amount")
    ELSE IF address = None THEN Raised(w, "AttributeError")
    ELSE LET w1 == GetWallet(w, address)
         IN  IF w1[Lower(address)] < amount
             THEN Raised(w1, "insufficient funds")
             ELSE Returned([w1 EXCEPT ![Lower(address)] = @ - amount])

(* transfer that debits the sender and credits nobody. *)
BankTransfer_NoCredit(w, sender, receiver, amount) ==
    IF amount <= 0 THEN Raised(w, "invalid amount")
    ELSE BankWithdraw(w, sender, amount)

(* transfer(sender, receiver, amount): withdraw, then deposit. *)
BankTransfer(w, sender, receiver, amount) ==
    IF amount <= 0 THEN Raised(w, "invalid amount")
    ELSE LET r == BankWithdraw(w, sender, amount)
         IN  IF r.exc # "none" THEN r
             ELSE BankDeposit(r.wallets, receiver, amount)

---------------------------------------------------------------------------
(* UsersDatabase (src/user_db.py).                                         *)

(* The keys of User.open_claims and User.open_disputes: Python dict keys,   *)
(* where the string str(n) and the integer n are different keys.           *)
Key(type, value) == [type |-> type, value |-> value]
StrKey(n) == Key("str", n)
IntKey(n) == Key("int", n)
(* The claim ids that a set of keys names, in either spelling. *)
Ids(keys) == {k.value : k \in keys}

(* create_user: the record create_user stores. *)
NewUser ==
    [open_claims |-> {}, open_disputes |-> {},
     total_disputes |-> 0, won_disputes |-> 0,
     total_claims |-> 0, correct_claims |-> 0]

CreateUser(u, user_id) ==
    IF user_id \in DOMAIN u THEN [u EXCEPT ![user_id] = NewUser]
    ELSE u @@ (user_id :> NewUser)

---------------------------------------------------------------------------
(* The state a handler works on and what it hands back.                    *)

Db == [wallets |-> wallets, users |-> users, claims |-> claims,
       next_claim_id |-> next_claim_id]

(* status: "accept" (returned True), "reject" (returned False),           *)
(* "raise" (an exception left the handler).                                *)
Result(db, status, error, vs) ==
    [db |-> db, status |-> status, error |-> error, vouchers |-> vs]

NoInput ==
    [kind |-> "none", sender |-> None, receiver |-> None, token |-> None,
     amount |-> 0, timestamp |-> 0,
     claimID |-> 0, prep_CID |-> "", data |-> NoData, proof |-> Sha256(<<>>)]

Handled(input, r) ==
    /\ input_index < MaxInputs
    /\ input_index' = input_index + 1
    /\ wallets' = r.db.wallets
    /\ users' = r.db.users
    /\ claims' = r.db.claims
    /\ next_claim_id' = r.db.next_claim_id
    /\ last' = input
    /\ outcome' = [status |-> r.status, error |-> r.error]
    /\ vouchers' = r.vouchers

---------------------------------------------------------------------------
(* Deposit (src/register_deposite_route.py).                               *)

(* create_erc20_transfer_voucher *)
Voucher(token, receiver, amount) ==
    [destination |-> token, receiver |-> receiver, amount |-> amount]

(* process_deposit_and_add_user without the test of the token: every      *)
(* token is credited like the accepted one.                                *)
ProcessDeposit_AnyToken(db, token, depositor, amount) ==
    LET u1 == IF depositor \in DOMAIN db.users THEN db.users
              ELSE CreateUser(db.users, depositor)
        db1 == [db EXCEPT !.users = u1]
        r == BankDeposit(db1.wallets, depositor, amount)
    IN  IF r.exc # "none"
        THEN Result(db1, "reject", r.exc, <<>>)
        ELSE Result([db1 EXCEPT !.wallets = r.wallets], "accept", "none", <<>>)

(* process_deposit_and_add_user *)
ProcessDeposit(db, token, depositor, amount) ==
    IF Lower(token) # Lower(TOKEN_ERC20_ADDRESS)
    THEN Result(db, "accept", "none", <<Voucher(token, depositor, amount)>>)
    ELSE LET u1 == IF depositor \in DOMAIN db.users THEN db.users
                   ELSE CreateUser(db.users, depositor)
             db1 == [db EXCEPT !.users = u1]
             r == BankDeposit(db1.wallets, depositor, amount)
         IN  IF r.exc # "none"
             THEN Result(db1, "reject", r.exc, <<>>)
             ELSE Result([db1 EXCEPT !.wallets = r.wallets], "accept", "none", <<>>)

(* default_handler, sender is the ERC20 portal *)
Deposit(token, depositor, amount) ==
    Handled([NoInput EXCEPT !.kind = "deposit", !.sender = depositor,
                            !.token = token, !.amount = amount],
            ProcessDeposit(Db, token, depositor, amount))

(* default_handler, any other sender *)
NothingToDo(sender) ==
    Handled([NoInput EXCEPT !.kind = "default", !.sender = sender],
            Result(Db, "reject", "Nothing to do here", <<>>))

---------------------------------------------------------------------------
(* Withdraw (src/withdraw_route.py).                                       *)

(* withdraw that returns True without emitting the voucher. *)
HandleWithdraw_NoVoucher(db, user, amount) ==
    LET r == BankWithdraw(db.wallets, user, amount)
        db1 == [db EXCEPT !.wallets = r.wallets]
    IN  IF r.exc # "none"
        THEN Result(db1, "reject", r.exc, <<>>)
        ELSE Result(db1, "accept", "none", <<>>)

HandleWithdraw(db, user, amount) ==
    LET r == BankWithdraw(db.wallets, user, amount)
        db1 == [db EXCEPT !.wallets = r.wallets]
    IN  IF r.exc # "none"
        THEN Result(db1, "reject", r.exc, <<>>)
        ELSE Result(db1, "accept", "none",
                    <<Voucher(TOKEN_ERC20_ADDRESS, user, amount)>>)

Withdraw(sender, amount) ==
    Handled([NoInput EXCEPT !.kind = "withdraw", !.sender = sender,
                            !.amount = amount],
            HandleWithdraw(Db, sender, amount))

---------------------------------------------------------------------------
(* ClaimsDatabase (src/claims_db.py) and the Claim model (src/model.py).   *)
(* A Claim has the fields user_address, disputing_user_address,            *)
(* timestamp_of_claim, status, collateral, compProof, compCID, prepCID and *)
(* lastUpdated, and no others.                                             *)

OPEN == "open"
DISPUTING == "disputing"
FINALIZED == "finalized"
DISPUTED == "disputed"
VALIDATED == "validated"
CONTRADICTED == "contradicted"

(* get_claim(claim_id): the claim, or None ("not claim" and "claim is None" *)
(* in a handler are claim_id \notin DOMAIN c).                              *)
GetClaim(c, claim_id) == IF claim_id \in DOMAIN c THEN c[claim_id] ELSE None

(* get_claim_by_prep_CID(prep_CID) is not None: any claim, of any status. *)
HasClaimByPrepCID(c, prep_CID) == \E id \in DOMAIN c : c[id].prepCID = prep_CID

(* create_claim that leaves next_claim_id as it was: self.claims[claim_id]  *)
(* is assigned, so a claim stored under that id before is replaced.        *)
CreateClaim_NoIncrement(db, prep_CID, user_address, timestamp_of_claim, comp_proof, comp_CID, value, wall) ==
    LET new_claim ==
            [user_address |-> user_address,
             disputing_user_address |-> None,
             timestamp_of_claim |-> timestamp_of_claim,
             status |-> OPEN,
             collateral |-> value,
             compProof |-> comp_proof,
             compCID |-> comp_CID,
             prepCID |-> prep_CID,
             lastUpdated |-> wall]
    IN  [db EXCEPT !.claims = [id \in DOMAIN @ \cup {db.next_claim_id} |->
                                  IF id = db.next_claim_id THEN new_claim ELSE @[id]]]

(* create_claim: the claim takes next_claim_id, which is then raised;       *)
(* status OPEN, no disputing user, lastUpdated int(time.time()).           *)
CreateClaim(db, prep_CID, user_address, timestamp_of_claim, comp_proof, comp_CID, value, wall) ==
    LET new_claim ==
            [user_address |-> user_address,
             disputing_user_address |-> None,
             timestamp_of_claim |-> timestamp_of_claim,
             status |-> OPEN,
             collateral |-> value,
             compProof |-> comp_proof,
             compCID |-> comp_CID,
             prepCID |-> prep_CID,
             lastUpdated |-> wall]
    IN  [db EXCEPT !.claims = @ @@ (db.next_claim_id :> new_claim),
                   !.next_claim_id = @ + 1]

(* initiate_dispute(claim_id, disputing_user_address) *)
InitiateDispute(c, claim_id, disputing_user_address, wall) ==
    IF claim_id \in DOMAIN c
    THEN [c EXCEPT ![claim_id].disputing_user_address = disputing_user_address,
                   ![claim_id].status = DISPUTING,
                   ![claim_id].lastUpdated = wall]
    ELSE c

(* validate_or_contradict_claim that also resets the disputing user. *)
ValidateOrContradictClaim_ClearsDisputant(c, claim_id, claim_status, wall) ==
    IF claim_id \in DOMAIN c
    THEN [c EXCEPT ![claim_id].status = claim_status,
                   ![claim_id].disputing_user_address = None,
                   ![claim_id].lastUpdated = wall]
    ELSE c

(* validate_or_contradict_claim(claim_id, claim_status); lastUpdated is    *)
(* int(time.time()), the wall clock of the machine that runs the handler.  *)
ValidateOrContradictClaim(c, claim_id, claim_status, wall) ==
    IF claim_id \in DOMAIN c
    THEN [c EXCEPT ![claim_id].status = claim_status,
                   ![claim_id].lastUpdated = wall]
    ELSE c

---------------------------------------------------------------------------
(* UsersDatabase.won_claim / lost_claim: the counters are raised before    *)
(* del user.open_claims[claimID], which raises KeyError on an absent key;  *)
(* claimID is the integer of the payload (ValidateInput.claimID: int).     *)

WonClaim(u, user_id, claimID) ==
    IF user_id \notin DOMAIN u THEN [users |-> u, exc |-> "none"]
    ELSE LET u1 == [u EXCEPT ![user_id].total_claims = @ + 1,
                             ![user_id].correct_claims = @ + 1]
         IN  IF IntKey(claimID) \in u[user_id].open_claims
             THEN [users |-> [u1 EXCEPT ![user_id].open_claims = @ \ {IntKey(claimID)}],
                   exc |-> "none"]
             ELSE [users |-> u1, exc |-> "KeyError"]

LostClaim(u, user_id, claimID) ==
    IF user_id \notin DOMAIN u THEN [users |-> u, exc |-> "none"]
    ELSE LET u1 == [u EXCEPT ![user_id].total_claims = @ + 1]
         IN  IF IntKey(claimID) \in u[user_id].open_claims
             THEN [users |-> [u1 EXCEPT ![user_id].open_claims = @ \ {IntKey(claimID)}],
                   exc |-> "none"]
             ELSE [users |-> u1, exc |-> "KeyError"]

---------------------------------------------------------------------------
(* OpenClaim (src/generate_claim_route.py).                                *)

PrepCIDs == {"p1", "p2"}
Collaterals == {COLLATERAL_AMOUNT, 1}

(* update_user_open_claims: the key is str(new_claim_id); a sender without *)
(* a user record is passed over.                                           *)
UpdateUserOpenClaims(u, user_wallet_address, new_claim_id) ==
    IF user_wallet_address \in DOMAIN u
    THEN [u EXCEPT ![user_wallet_address].open_claims = @ \cup {StrKey(new_claim_id)}]
    ELSE u

(* handle_claim without step 1, the check of the collateral field. *)
HandleClaim_NoCollateralCheck(db, sender, prep_CID, collateral) ==
    IF HasClaimByPrepCID(db.claims, prep_CID)
    THEN Result(db, "reject", "Claim already exists", <<>>)
    ELSE LET w1 == GetWallet(db.wallets, sender)
             db1 == [db EXCEPT !.wallets = w1]
         IN  IF Balance(w1, sender) < COLLATERAL_AMOUNT
             THEN Result(db1, "reject", "Insufficient funds for collateral", <<>>)
             ELSE LET r == BankTransfer(w1, sender, LOCKED_ASSET_ADDRESS,
                                        COLLATERAL_AMOUNT)
                      db2 == [db EXCEPT !.wallets = r.wallets]
                  IN  IF r.exc # "none"
                      THEN Result(db2, "reject", "Failed to lock collateral", <<>>)
                      ELSE Result(db2, "raise", "AttributeError", <<>>)

(* handle_claim without step 2, the check for an existing claim. *)
HandleClaim_NoDuplicateCheck(db, sender, prep_CID, collateral) ==
    IF collateral # COLLATERAL_AMOUNT
    THEN Result(db, "reject", "Collateral amount should be equal", <<>>)
    ELSE LET w1 == GetWallet(db.wallets, sender)
             db1 == [db EXCEPT !.wallets = w1]
         IN  IF Balance(w1, sender) < COLLATERAL_AMOUNT
             THEN Result(db1, "reject", "Insufficient funds for collateral", <<>>)
             ELSE LET r == BankTransfer(w1, sender, LOCKED_ASSET_ADDRESS,
                                        COLLATERAL_AMOUNT)
                      db2 == [db EXCEPT !.wallets = r.wallets]
                  IN  IF r.exc # "none"
                      THEN Result(db2, "reject", "Failed to lock collateral", <<>>)
                      ELSE Result(db2, "raise", "AttributeError", <<>>)

(* handle_claim.  Steps 1-3 run as written.  Step 4 evaluates the          *)
(* arguments of create_and_register_claim; the fourth, payload.comp_proof, *)
(* names no field of ClaimInput (src/inputs.py: handle, prep_CID,          *)
(* comp_CID, collateral, computation_proof), so AttributeError leaves the  *)
(* handler before create_claim is called, after the collateral was moved.  *)
HandleClaim(db, sender, prep_CID, collateral) ==
    IF collateral # COLLATERAL_AMOUNT
    THEN Result(db, "reject", "Collateral amount should be equal", <<>>)
    ELSE IF HasClaimByPrepCID(db.claims, prep_CID)
    THEN Result(db, "reject", "Claim already exists", <<>>)
    ELSE LET w1 == GetWallet(db.wallets, sender)
             db1 == [db EXCEPT !.wallets = w1]
         IN  IF Balance(w1, sender) < COLLATERAL_AMOUNT
             THEN Result(db1, "reject", "Insufficient funds for collateral", <<>>)
             ELSE LET r == BankTransfer(w1, sender, LOCKED_ASSET_ADDRESS,
                                        COLLATERAL_AMOUNT)
                      db2 == [db EXCEPT !.wallets = r.wallets]
                  IN  IF r.exc # "none"
                      THEN Result(db2, "reject", "Failed to lock collateral", <<>>)
                      ELSE Result(db2, "raise", "AttributeError", <<>>)

OpenClaim(sender, prep_CID, collateral) ==
    Handled([NoInput EXCEPT !.kind = "claim", !.sender = sender,
                            !.prep_CID = prep_CID, !.amount = collateral],
            HandleClaim(Db, sender, prep_CID, collateral))

---------------------------------------------------------------------------
(* Dispute (src/generate_dispute_route.py).                                *)

ClaimIDs == {0, 1}
Stakes == {VALIDATOR_STAKING, 1}

(* handle_dispute.  check_claim_exists_and_verify_CID reads claim.prep_CID *)
(* on every claim it finds; Claim has prepCID and no prep_CID, so the      *)
(* AttributeError is logged and raised again, and steps 3-6 never run.     *)
HandleDispute(db, sender, claimID, staking_amount, prep_CID) ==
    LET w1 == GetWallet(db.wallets, sender)
        db1 == [db EXCEPT !.wallets = w1]
    IN  IF Balance(w1, sender) < VALIDATOR_STAKING
        THEN Result(db1, "reject", "Insufficient funds for staking", <<>>)
        ELSE IF staking_amount # VALIDATOR_STAKING
        THEN Result(db1, "reject", "Staking Amount is not equal", <<>>)
        ELSE IF claimID \notin DOMAIN db1.claims
        THEN Result(db1, "reject", "No claim found", <<>>)
        ELSE Result(db1, "raise", "AttributeError", <<>>)

Dispute(sender, claimID, staking_amount, prep_CID) ==
    Handled([NoInput EXCEPT !.kind = "dispute", !.sender = sender,
                            !.claimID = claimID, !.amount = staking_amount,
                            !.prep_CID = prep_CID],
            HandleDispute(Db, sender, claimID, staking_amount, prep_CID))

---------------------------------------------------------------------------
(* Finalize (src/finalize_claim_route.py).                                 *)

(* handle_finalize.  Both time checks read claim.last_edited; Claim has    *)
(* lastUpdated and no last_edited, so an OPEN or DISPUTING claim raises    *)
(* AttributeError before finalize_claim, the counters or the transfer;      *)
(* data.metadata.timestamp, the left operand, is read and never compared.  *)
HandleFinalize(db, claimID, prep_CID, timestamp) ==
    IF claimID = 0 /\ prep_CID = ""
    THEN Result(db, "raise", "Not enough parameters", <<>>)
    ELSE IF claimID \notin DOMAIN db.claims
    THEN Result(db, "raise", "Claim doesn't exist", <<>>)
    ELSE IF db.claims[claimID].status \in {OPEN, DISPUTING}
    THEN Result(db, "raise", "AttributeError", <<>>)
    ELSE Result(db, "raise", "Can only finalize Open or Disputing claims", <<>>)

(* The handler never reads the sender of a finalize input, and reads the   *)
(* timestamp only for a claim it found.                                    *)
Finalize(claimID, prep_CID) ==
    \E timestamp \in IF claimID \in DOMAIN claims THEN Timestamps ELSE {0} :
        Handled([NoInput EXCEPT !.kind = "finalize", !.timestamp = timestamp,
                                !.claimID = claimID, !.prep_CID = prep_CID],
                HandleFinalize(Db, claimID, prep_CID, timestamp))

---------------------------------------------------------------------------
(* Validate (src/validate_claim_route.py).                                 *)

(* calculate_endpoint_usage.  The rows of type "Endpoint" are kept;       *)
(* groupby("sensor_id")["water_usage"].sum() adds the usage of each sensor *)
(* row by row and, sort being left at its default, lists the sensors in    *)
(* ascending order; to_csv(index=False, header=False) writes one line      *)
(* sensor_id,sum per sensor; the digest is taken of that text.             *)

EndpointRows(rows) == SelectSeq(rows, LAMBDA r : r.type = "Endpoint")

RECURSIVE GroupSums(_, _)
GroupSums(rows, acc) ==
    IF rows = <<>> THEN acc
    ELSE LET r == Head(rows)
         IN  GroupSums(Tail(rows),
                 IF r.sensor_id \in DOMAIN acc
                 THEN [acc EXCEPT ![r.sensor_id] = @ + r.water_usage]
                 ELSE acc @@ (r.sensor_id :> r.water_usage))

RECURSIVE SortedKeys(_)
SortedKeys(S) ==
    IF S = {} THEN <<>>
    ELSE LET m == CHOOSE x \in S : \A y \in S : x <= y
         IN  <<m>> \o SortedKeys(S \ {m})

(* The sensors in the order of their first row: groupby(..., sort=False). *)
RECURSIVE FirstSeenKeys(_, _)
FirstSeenKeys(rows, seen) ==
    IF rows = <<>> THEN <<>>
    ELSE IF Head(rows).sensor_id \in seen THEN FirstSeenKeys(Tail(rows), seen)
    ELSE <<Head(rows).sensor_id>>
         \o FirstSeenKeys(Tail(rows), seen \cup {Head(rows).sensor_id})

ToCsv(keys, sums) == [i \in 1..Len(keys) |-> <<keys[i], sums[keys[i]]>>]

(* calculate_endpoint_usage with the groups left in first-seen order. *)
CalculateEndpointUsage_NoSort(csv_data) ==
    LET filtered_data == EndpointRows(csv_data.rows)
        sums == GroupSums(filtered_data, <<>>)
    IN  Sha256(ToCsv(FirstSeenKeys(filtered_data, {}), sums))

CalculateEndpointUsage(csv_data) ==
    LET filtered_data == EndpointRows(csv_data.rows)
        sums == GroupSums(filtered_data, <<>>)
    IN  Sha256(ToCsv(SortedKeys(DOMAIN sums), sums))

Row(type, sensor_id, water_usage) ==
    [type |-> type, sensor_id |-> sensor_id, water_usage |-> water_usage]

(* The payloads and proofs of the Validate inputs: one payload, its digest *)
(* and one other digest.                                                   *)
Csv1 == Csv(<<Row("Endpoint", 2, 1), Row("Junction", 1, 2), Row("Endpoint", 1, 1)>>)
PreprocessedData == {NoData, Csv1}
Proofs == {Sha256(<<<<1, 1>>, <<2, 1>>>>), Sha256(<<>>)}

(* validate_claim *)
ValidateClaim(preprocessed_data, comp_proof) ==
    CalculateEndpointUsage(preprocessed_data) = comp_proof

Payout == COLLATERAL_AMOUNT + VALIDATOR_STAKING + CLAIM_INCENTIVE

(* validate_and_finalize_claim: [db, exc], exc the exception that left it. *)
(* The timestamp it is handed is not read.                                 *)
ValidateAndFinalizeClaim(db, claimID, preprocessed_data, timestamp, comp_proof, wall) ==
    LET claim == GetClaim(db.claims, claimID)
        valid == ValidateClaim(preprocessed_data, comp_proof)
        disputing == claim.status = DISPUTING
        still == [users |-> db.users, exc |-> "none"]
        \* the disputing user's record, first
        s1 == IF ~disputing THEN still
              ELSE IF valid
                   THEN LostClaim(db.users, claim.disputing_user_address, claimID)
                   ELSE WonClaim(db.users, claim.disputing_user_address, claimID)
        \* the claim's status
        c2 == ValidateOrContradictClaim(db.claims, claimID,
                  IF valid THEN VALIDATED ELSE CONTRADICTED, wall)
        \* the claimant's record
        s3 == IF valid THEN WonClaim(s1.users, claim.user_address, claimID)
              ELSE LostClaim(s1.users, claim.user_address, claimID)
        \* the payout
        r4 == BankTransfer(db.wallets, LOCKED_ASSET_ADDRESS,
                  IF valid THEN claim.user_address
                  ELSE claim.disputing_user_address, Payout)
    IN  IF s1.exc # "none"
        THEN [db |-> [db EXCEPT !.users = s1.users], exc |-> s1.exc]
        ELSE IF s3.exc # "none"
        THEN [db |-> [db EXCEPT !.users = s3.users, !.claims = c2], exc |-> s3.exc]
        ELSE [db |-> [db EXCEPT !.users = s3.users, !.claims = c2,
                                !.wallets = r4.wallets],
              exc |-> r4.exc]

(* handle_validate.  The ownership check reads data.metadata.sender; the   *)
(* metadata class belongs to the rollup framework, whose other readers in  *)
(* this repository use msg_sender: has_sender says whether the framework   *)
(* in use provides the attribute.                                          *)
HandleValidate(db, sender, claimID, preprocessed_data, comp_proof, timestamp, has_sender, wall) ==
    IF claimID = 0 \/ preprocessed_data = NoData
    THEN Result(db, "raise", "Not enough parameters", <<>>)
    ELSE IF claimID \notin DOMAIN db.claims
    THEN Result(db, "raise", "Claim doesn't exist", <<>>)
    ELSE IF db.claims[claimID].status \notin {OPEN, DISPUTING}
    THEN Result(db, "raise", "Can only validate Open and Disputing claims", <<>>)
    ELSE IF ~has_sender
    THEN Result(db, "raise", "AttributeError", <<>>)
    ELSE IF db.claims[claimID].user_address # sender
    THEN Result(db, "raise", "Can only validate own claims", <<>>)
    ELSE LET r == ValidateAndFinalizeClaim(db, claimID, preprocessed_data,
                                           timestamp, comp_proof, wall)
         IN  IF r.exc # "none" THEN Result(r.db, "raise", r.exc, <<>>)
             ELSE Result(r.db, "accept", "none", <<>>)

(* has_sender, the timestamp and the wall clock are read only for a claim  *)
(* the handler found.                                                      *)
Validate(sender, claimID, preprocessed_data, comp_proof) ==
    \E has_sender \in IF claimID \in DOMAIN claims THEN BOOLEAN ELSE {TRUE},
       timestamp \in IF claimID \in DOMAIN claims THEN Timestamps ELSE {0},
       wall \in IF claimID \in DOMAIN claims THEN WallClock ELSE {0} :
        Handled([NoInput EXCEPT !.kind = "validate", !.sender = sender,
                                !.timestamp = timestamp,
                                !.claimID = claimID, !.data = preprocessed_data,
                                !.proof = comp_proof],
                HandleValidate(Db, sender, claimID, preprocessed_data, comp_proof,
                               timestamp, has_sender, wall))

---------------------------------------------------------------------------
Init ==
    /\ wallets = <<>>
    /\ users = <<>>
    /\ claims = <<>>
    /\ next_claim_id = 1
    /\ input_index = 0
    /\ last = NoInput
    /\ outcome = [status |-> "none", error |-> "none"]
    /\ vouchers = <<>>

Next ==
    \/ \E t \in Tokens, d \in Depositors, a \in DepositAmounts : Deposit(t, d, a)
    \/ \E s \in Senders : NothingToDo(s)
    \/ \E s \in Senders, a \in WithdrawAmounts : Withdraw(s, a)
    \/ \E s \in Senders, p \in PrepCIDs, c \in Collaterals : OpenClaim(s, p, c)
    \/ \E s \in Senders, id \in ClaimIDs, a \in Stakes, p \in PrepCIDs :
          Dispute(s, id, a, p)
    \/ \E id \in ClaimIDs, p \in PrepCIDs \cup {""} : Finalize(id, p)
    \/ \E s \in Senders, id \in ClaimIDs, d \in PreprocessedData, h \in Proofs :
          Validate(s, id, d, h)

Spec == Init /\ [][Next]_vars

---------------------------------------------------------------------------
(* The ledger on its own: BankDatabase driven through its three methods    *)
(* with arbitrary arguments, the receiver of a transfer possibly None (the *)
(* type of Claim.disputing_user_address, which validate_and_finalize_claim *)
(* passes as receiver).                                                    *)

LedgerAddresses == {"0xaa", "0xAA", "0xbb"}
LedgerAmounts == {-1, 0, 1, 10}

LedgerCall(input, r) ==
    Handled(input,
            Result([Db EXCEPT !.wallets = r.wallets],
                   IF r.exc = "none" THEN "accept" ELSE "raise", r.exc, <<>>))

LedgerDeposit(address, amount) ==
    LedgerCall([NoInput EXCEPT !.kind = "bank.deposit", !.sender = address,
                               !.amount = amount],
               BankDeposit(wallets, address, amount))

LedgerWithdraw(address, amount) ==
    LedgerCall([NoInput EXCEPT !.kind = "bank.withdraw", !.sender = address,
                               !.amount = amount],
               BankWithdraw(wallets, address, amount))

LedgerTransfer(sender, receiver, amount) ==
    LedgerCall([NoInput EXCEPT !.kind = "bank.transfer", !.sender = sender,
                               !.receiver = receiver, !.amount = amount],
               BankTransfer(wallets, sender, receiver, amount))

NextLedger ==
    \/ \E a \in LedgerAddresses, x \in LedgerAmounts : LedgerDeposit(a, x)
    \/ \E a \in LedgerAddresses, x \in LedgerAmounts : LedgerWithdraw(a, x)
    \/ \E a \in LedgerAddresses, b \in LedgerAddresses \cup {None},
          x \in LedgerAmounts : LedgerTransfer(a, b, x)

SpecLedger == Init /\ [][NextLedger]_vars

---------------------------------------------------------------------------
(* The registry under the handlers: ClaimsDatabase.create_claim and        *)
(* initiate_dispute called on the claims_db object itself, the way         *)
(* handle_claim (steps 4 and 5, with the entry in the claimant's open      *)
(* claims) and handle_dispute (step 5) call them once their checks have    *)
(* passed, and every handler as written on top of the claims this leaves.  *)

Claimants == {"0xaa", "0xbb"}

(* create_claim, for a prep_CID that check_existing_claim lets through,    *)
(* and the entry in the claimant's open claims that step 5 of handle_claim *)
(* makes for the id create_and_register_claim returns.                     *)
RegistryCreateClaim(user_address, prep_CID, timestamp, wall) ==
    /\ ~ HasClaimByPrepCID(claims, prep_CID)
    /\ LET db1 == CreateClaim(Db, prep_CID, user_address, timestamp,
                              "proof", "cid", COLLATERAL_AMOUNT, wall)
           db2 == [db1 EXCEPT !.users = UpdateUserOpenClaims(@, user_address,
                                                             next_claim_id)]
       IN  Handled([NoInput EXCEPT !.kind = "claims.create", !.sender = user_address,
                                   !.prep_CID = prep_CID, !.timestamp = timestamp,
                                   !.amount = COLLATERAL_AMOUNT],
                   Result(db2, "accept", "none", <<>>))

(* initiate_dispute, for a claim that check_claim_eligible_for_dispute     *)
(* lets through: OPEN, and not the disputing user's own.                   *)
RegistryInitiateDispute(claim_id, disputing_user_address, wall) ==
    /\ claim_id \in DOMAIN claims
    /\ claims[claim_id].status = OPEN
    /\ claims[claim_id].user_address # disputing_user_address
    /\ Handled([NoInput EXCEPT !.kind = "claims.dispute",
                               !.sender = disputing_user_address,
                               !.claimID = claim_id],
               Result([Db EXCEPT !.claims = InitiateDispute(claims, claim_id,
                                                disputing_user_address, wall)],
                      "accept", "none", <<>>))

NextClaims ==
    \/ \E d \in Depositors : Deposit(TOKEN_ERC20_ADDRESS, d, Payout)
    \/ \E u \in Claimants, p \in PrepCIDs, ts \in Timestamps, wall \in WallClock :
          RegistryCreateClaim(u, p, ts, wall)
    \/ \E id \in ClaimIDs, u \in Claimants, wall \in WallClock :
          RegistryInitiateDispute(id, u, wall)
    \/ \E s \in Claimants, p \in PrepCIDs, c \in Collaterals : OpenClaim(s, p, c)
    \/ \E s \in Claimants, id \in ClaimIDs, a \in Stakes, p \in PrepCIDs :
          Dispute(s, id, a, p)
    \/ \E id \in ClaimIDs, p \in PrepCIDs : Finalize(id, p)
    \/ \E s \in Claimants, id \in ClaimIDs, d \in PreprocessedData, h \in Proofs :
          Validate(s, id, d, h)
    \* the first claimant under the mixed-case spelling of the address
    \/ \E id \in ClaimIDs : Validate("0xAA", id, Csv1, CalculateEndpointUsage(Csv1))

SpecClaims == Init /\ [][NextClaims]_vars

---------------------------------------------------------------------------
(* Properties.                                                             *)

Accounts == {Lower(a) : a \in Senders \cup Depositors \cup LedgerAddresses}

RECURSIVE SumOver(_, _)
SumOver(w, S) ==
    IF S = {} THEN 0
    ELSE LET a == CHOOSE x \in S : TRUE IN w[a] + SumOver(w, S \ {a})

(* The sum of all balances of the ledger. *)
Total(w) == SumOver(w, DOMAIN w)

Delta(a) == Balance(wallets', a) - Balance(wallets, a)
Changed == {a \in Accounts : Delta(a) # 0}
BalancesUnchanged == \A a \in Accounts : Delta(a) = 0

\* C1: after any sequence of inputs, accepted or not, every account of the
\* ledger, the locked pool included, has a balance >= 0.
C1_BalancesNonNegative ==
    \A a \in DOMAIN wallets : wallets[a] >= 0

(* A withdrawal was refused for lack of funds while the pool holds collateral. *)
C1_Witness ==
    /\ last.kind = "withdraw"
    /\ outcome.error = "insufficient funds"
    /\ Balance(wallets, LOCKED_ASSET_ADDRESS) >= COLLATERAL_AMOUNT

RegistryStaysEmpty == claims = <<>> /\ next_claim_id = 1

\* C4: whenever an input is rejected or its handler raises, also after some
\* of its steps have run, the balances, the claims and the user records
\* are what they were before the input.
C4_FailureLeavesNoTrace ==
    [][outcome'.status \in {"reject", "raise"}
         => BalancesUnchanged /\ claims' = claims /\ users' = users]_vars

\* C8: a transfer is all or nothing: either the sender is debited and the
\* receiver credited by the amount, or the transfer fails and no balance
\* has changed; this for every sender, receiver (None included) and amount.
C8_TransferAllOrNothing ==
    [][last'.kind = "bank.transfer"
         => \/ /\ outcome'.status = "accept"
               /\ \A a \in Accounts :
                     Delta(a) = (IF a = Lower(last'.receiver) THEN last'.amount ELSE 0)
                              - (IF a = Lower(last'.sender) THEN last'.amount ELSE 0)
            \/ /\ outcome'.status # "accept"
               /\ BalancesUnchanged]_vars

\* C9: a withdraw of more than the balance fails with "insufficient funds"
\* and leaves the balance as it was; a deposit of x adds x, and a withdraw
\* of x right after it succeeds and takes x off again; from balance 0 every
\* withdraw of a positive amount fails with "insufficient funds".
C9_WithdrawAgainstBalance ==
    [][/\ (last'.kind = "bank.withdraw" /\ last'.amount > Balance(wallets, last'.sender))
            => /\ outcome'.error = "insufficient funds"
               /\ BalancesUnchanged
       /\ (last'.kind = "bank.deposit" /\ last'.amount > 0)
            => /\ outcome'.status = "accept"
               /\ Delta(Lower(last'.sender)) = last'.amount
       /\ ( /\ last.kind = "bank.deposit" /\ outcome.status = "accept"
            /\ last'.kind = "bank.withdraw"
            /\ Lower(last'.sender) = Lower(last.sender)
            /\ last'.amount = last.amount )
            => /\ outcome'.status = "accept"
               /\ Delta(Lower(last'.sender)) = - last.amount
       /\ ( /\ last'.kind = "bank.withdraw" /\ last'.amount > 0
            /\ Balance(wallets, last'.sender) = 0 )
            => outcome'.error = "insufficient funds"]_vars

(* deposit(A, x), withdraw(A, x), then a withdraw of 1 refused at balance 0. *)
C9_Witness ==
    /\ input_index = 3
    /\ last.kind = "bank.withdraw" /\ last.amount = 1
    /\ outcome.error = "insufficient funds"
    /\ Lower(last.sender) \in DOMAIN wallets
    /\ Total(wallets) = 0

\* C10: deposit, withdraw and transfer called with an amount <= 0 fail with
\* "invalid amount" and change no balance.
C10_InvalidAmount ==
    [][(last'.kind \in {"bank.deposit", "bank.withdraw", "bank.transfer"}
          /\ last'.amount <= 0)
         => /\ outcome'.status = "raise"
            /\ outcome'.error = "invalid amount"
            /\ wallets' = wallets]_vars

(* A transfer of a non-positive amount was refused on a funded account. *)
C10_Witness ==
    /\ last.kind = "bank.transfer" /\ last.amount <= 0
    /\ outcome.error = "invalid amount"
    /\ Balance(wallets, last.sender) > 0

(* The claims that hold prep_CID and are OPEN or DISPUTING. *)
LiveClaims(c, prep_CID) ==
    {id \in DOMAIN c : c[id].prepCID = prep_CID /\ c[id].status \in {OPEN, DISPUTING}}

\* C11: an OpenClaim by A with the required collateral, a prepCID bound to
\* no live claim and balance(A) >= collateral is accepted: A is debited the
\* collateral, the pool credited the same, a new claim exists with status
\* OPEN, claimant A and no disputant, and its id is in A's open claims.
C11_OpenClaimSucceeds ==
    [][( /\ last'.kind = "claim"
         /\ last'.amount = COLLATERAL_AMOUNT
         /\ Lower(last'.sender) # LOCKED_ASSET_ADDRESS
         /\ LiveClaims(claims, last'.prep_CID) = {}
         /\ Balance(wallets, last'.sender) >= COLLATERAL_AMOUNT )
         => /\ outcome'.status = "accept"
            /\ Delta(Lower(last'.sender)) = - COLLATERAL_AMOUNT
            /\ Delta(LOCKED_ASSET_ADDRESS) = COLLATERAL_AMOUNT
            /\ next_claim_id \in DOMAIN claims' \ DOMAIN claims
            /\ claims'[next_claim_id].status = OPEN
            /\ claims'[next_claim_id].user_address = last'.sender
            /\ claims'[next_claim_id].disputing_user_address = None
            /\ last'.sender \in DOMAIN users'
                  => next_claim_id \in Ids(users'[last'.sender].open_claims)]_vars

\* C12 as stated: an OpenClaim whose prepCID is bound to a claim in status
\* OPEN or DISPUTING is rejected with "Claim already exists"; nothing is
\* debited, no claim is created, the next claim id is not consumed and no
\* user record changes.
C12_DuplicateRejected_AnyCollateral ==
    [][( /\ last'.kind = "claim"
         /\ LiveClaims(claims, last'.prep_CID) # {} )
         => /\ outcome'.status = "reject"
            /\ outcome'.error = "Claim already exists"
            /\ wallets' = wallets
            /\ claims' = claims
            /\ next_claim_id' = next_claim_id
            /\ users' = users]_vars

\* C12 amended: an OpenClaim that carries the required collateral and whose
\* prepCID is bound to a claim in status OPEN or DISPUTING is rejected with
\* "Claim already exists"; nothing is debited, no claim is created, the
\* next claim id is not consumed and no user record changes.
C12_DuplicateRejected ==
    [][( /\ last'.kind = "claim"
         /\ last'.amount = COLLATERAL_AMOUNT
         /\ LiveClaims(claims, last'.prep_CID) # {} )
         => /\ outcome'.status = "reject"
            /\ outcome'.error = "Claim already exists"
            /\ wallets' = wallets
            /\ claims' = claims
            /\ next_claim_id' = next_claim_id
            /\ users' = users]_vars

(* A funded sender's OpenClaim was refused for a prepCID held by a live claim. *)
C12_Witness ==
    /\ last.kind = "claim"
    /\ last.amount = COLLATERAL_AMOUNT
    /\ outcome.error = "Claim already exists"
    /\ LiveClaims(claims, last.prep_CID) # {}
    /\ Balance(wallets, last.sender) >= COLLATERAL_AMOUNT

(* The epoch a Finalize waits for, by the status of the claim. *)
Epoch(status) == IF status = OPEN THEN CLAIM_EPOCH ELSE DISPUTE_EPOCH

\* C13: a Finalize for an OPEN claim with timestamp < lastUpdated + CLAIM_EPOCH
\* is rejected as too early ("Claim can't be finalized yet", with the
\* remaining seconds lastUpdated + CLAIM_EPOCH - timestamp) and changes no
\* claim, balance or user record; the same for a DISPUTING claim with
\* DISPUTE_EPOCH.
C13_TooEarlyRejected ==
    [][( /\ last'.kind = "finalize"
         /\ last'.claimID \in DOMAIN claims
         /\ claims[last'.claimID].status \in {OPEN, DISPUTING}
         /\ last'.timestamp < claims[last'.claimID].lastUpdated
                                + Epoch(claims[last'.claimID].status) )
         => /\ outcome'.status = "raise"
            /\ outcome'.error = "Claim can't be finalized yet"
            /\ wallets' = wallets
            /\ claims' = claims
            /\ users' = users]_vars

\* C14: a Finalize for an OPEN claim with timestamp >= lastUpdated +
\* CLAIM_EPOCH (equality included) is accepted: the status becomes FINALIZED,
\* the claimant is credited collateral + incentive, the pool debited the
\* same, the claimant's total_claims and correct_claims each rise by 1 and
\* the claim id leaves the claimant's open claims.
C14_FinalizeSucceeds ==
    [][( /\ last'.kind = "finalize"
         /\ last'.claimID \in DOMAIN claims
         /\ claims[last'.claimID].status = OPEN
         /\ Lower(claims[last'.claimID].user_address) # LOCKED_ASSET_ADDRESS
         /\ last'.timestamp >= claims[last'.claimID].lastUpdated + CLAIM_EPOCH )
         => LET id == last'.claimID
                A == claims[id].user_address
            IN  /\ outcome'.status = "accept"
                /\ claims'[id].status = FINALIZED
                /\ Delta(Lower(A)) = COLLATERAL_AMOUNT + CLAIM_INCENTIVE
                /\ Delta(LOCKED_ASSET_ADDRESS) = - (COLLATERAL_AMOUNT + CLAIM_INCENTIVE)
                /\ A \in DOMAIN users
                      => /\ users'[A].total_claims = users[A].total_claims + 1
                         /\ users'[A].correct_claims = users[A].correct_claims + 1
                         /\ id \notin Ids(users'[A].open_claims)]_vars

(* The step is a Validate, by its claimant, of the existing claim id with  *)
(* a payload, the claim being in the given status.                         *)
ValidateByClaimant(id, status) ==
    /\ last'.kind = "validate"
    /\ last'.claimID = id
    /\ id \in DOMAIN claims
    /\ claims[id].status = status
    /\ last'.sender = claims[id].user_address
    /\ last'.data # NoData

\* C15: for a claim of A disputed by B, a Validate by A whose proof hash
\* equals the recomputed hash is accepted, sets the status to VALIDATED,
\* credits A collateral + stake + incentive from the pool, credits B
\* nothing, and raises B's total_disputes by 1, won_disputes unchanged.
C15_ValidatedPaysClaimant ==
    [][\A id \in ClaimIDs :
         ( /\ ValidateByClaimant(id, DISPUTING)
           /\ ValidateClaim(last'.data, last'.proof) )
         => LET A == claims[id].user_address
                B == claims[id].disputing_user_address
            IN  /\ outcome'.status = "accept"
                /\ claims'[id].status = VALIDATED
                /\ Delta(Lower(A)) = Payout
                /\ Delta(LOCKED_ASSET_ADDRESS) = - Payout
                /\ Delta(Lower(B)) = 0
                /\ B \in DOMAIN users
                      => /\ users'[B].total_disputes = users[B].total_disputes + 1
                         /\ users'[B].won_disputes = users[B].won_disputes]_vars

\* C16: for a claim of A disputed by B, a Validate by A whose proof hash
\* differs from the recomputed hash is accepted as a committed outcome: the
\* status becomes CONTRADICTED, B is credited collateral + stake +
\* incentive from the pool, A nothing, and A's total_claims rises by 1,
\* correct_claims unchanged.
C16_ContradictedPaysDisputant ==
    [][\A id \in ClaimIDs :
         ( /\ ValidateByClaimant(id, DISPUTING)
           /\ ~ ValidateClaim(last'.data, last'.proof) )
         => LET A == claims[id].user_address
                B == claims[id].disputing_user_address
            IN  /\ outcome'.status = "accept"
                /\ claims'[id].status = CONTRADICTED
                /\ Delta(Lower(B)) = Payout
                /\ Delta(LOCKED_ASSET_ADDRESS) = - Payout
                /\ Delta(Lower(A)) = 0
                /\ A \in DOMAIN users
                      => /\ users'[A].total_claims = users[A].total_claims + 1
                         /\ users'[A].correct_claims = users[A].correct_claims]_vars

\* C17: a Validate with a non-matching hash on an OPEN claim without a
\* disputing user sends no funds to an absent address and does not debit the
\* pool without crediting the same amount to an account: what the pool
\* loses, one other account (the treasury) gains.  (The claim also says
\* that the input is accepted and the status becomes CONTRADICTED.)
C17_ForfeitGoesToTreasury ==
    [][\A id \in ClaimIDs :
         ( /\ ValidateByClaimant(id, OPEN)
           /\ claims[id].disputing_user_address = None
           /\ ~ ValidateClaim(last'.data, last'.proof) )
         => /\ Total(wallets') = Total(wallets)
            /\ Delta(LOCKED_ASSET_ADDRESS) < 0
                  => \E treasury \in Accounts \ {LOCKED_ASSET_ADDRESS} :
                        Delta(treasury) = - Delta(LOCKED_ASSET_ADDRESS)]_vars

(* The step is a Validate of an existing claim, with a payload, by a       *)
(* sender that is not its claimant.                                        *)
ValidateByOther ==
    /\ last'.kind = "validate"
    /\ last'.claimID \in DOMAIN claims
    /\ last'.sender # claims[last'.claimID].user_address
    /\ last'.data # NoData

\* C18: a Validate whose sender is not the claim's claimant is rejected with
\* "Can only validate own claims", whatever the status of the claim, and
\* changes no claim, balance or user record.
C18_UnauthorizedValidate ==
    [][ValidateByOther
         => /\ outcome'.status = "raise"
            /\ outcome'.error = "Can only validate own claims"
            /\ wallets' = wallets
            /\ claims' = claims
            /\ users' = users]_vars

(* What does hold of a Validate by another sender: the handler raises and   *)
(* nothing changes.  Holds under SpecClaims.                               *)
ValidateByOtherChangesNothing ==
    [][ValidateByOther
         => /\ outcome'.status = "raise"
            /\ wallets' = wallets
            /\ claims' = claims
            /\ users' = users]_vars

(* The claims whose status or lastUpdated this step wrote. *)
Written ==
    {id \in DOMAIN claims' :
        \/ id \notin DOMAIN claims
        \/ claims'[id].status # claims[id].status
        \/ claims'[id].lastUpdated # claims[id].lastUpdated}

\* C19: every lastUpdated that a step writes (on create, finalize and
\* validate) equals the timestamp carried by the input of that step, so the
\* state is a function of the input stream and not of the wall clock.
C19_TimestampsFromTrigger ==
    [][last'.kind \in {"claims.create", "finalize", "validate"}
         => \A id \in Written : claims'[id].lastUpdated = last'.timestamp]_vars

---------------------------------------------------------------------------
(* The proof check on its own: validate_claim applied to one payload and   *)
(* one submitted hash.                                                     *)

MaxRows == 3
SensorIds == {1, 2}
WaterUsages == {1, 2}
(* Rows of the type that is kept, and rows of another type on the same     *)
(* sensors.                                                                *)
Rows ==
    {Row("Endpoint", k, u) : k \in SensorIds, u \in WaterUsages}
        \cup {Row("Junction", k, 1) : k \in SensorIds}
Payloads == UNION {[1..n -> Rows] : n \in 1..MaxRows}

RECURSIVE SumUsage(_, _)
SumUsage(rows, I) ==
    IF I = {} THEN 0
    ELSE LET i == CHOOSE x \in I : TRUE
         IN  rows[i].water_usage + SumUsage(rows, I \ {i})

(* The canonical form of a payload: for every sensor that has a row of     *)
(* type "Endpoint", one line with the sensor and the total usage of its    *)
(* Endpoint rows, the lines in ascending order of sensor.                  *)
Canonical(rows) ==
    LET kept == {i \in 1..Len(rows) : rows[i].type = "Endpoint"}
        keys == SortedKeys({rows[i].sensor_id : i \in kept})
    IN  [n \in 1..Len(keys) |->
            <<keys[n], SumUsage(rows, {i \in kept : rows[i].sensor_id = keys[n]})>>]

(* The submitted hashes: the digests of the canonical forms of the         *)
(* payloads of one or two rows.                                            *)
SubmittedProofs ==
    {Sha256(Canonical(rows)) : rows \in UNION {[1..n -> Rows] : n \in 1..2}}

(* The payloads with the same rows in another order. *)
Reordered(rows) ==
    {[i \in 1..Len(rows) |-> rows[f[i]]] : f \in Permutations(1..Len(rows))}

Verify(rows, comp_proof) ==
    /\ last.kind = "none"
    /\ last' = [NoInput EXCEPT !.kind = "verify", !.data = Csv(rows),
                               !.proof = comp_proof]
    /\ outcome' = [status |-> IF ValidateClaim(Csv(rows), comp_proof)
                              THEN "True" ELSE "False",
                   error |-> "none"]
    /\ UNCHANGED <<wallets, users, claims, next_claim_id, input_index, vouchers>>

NextVerify == \E rows \in Payloads, h \in SubmittedProofs : Verify(rows, h)

SpecVerify == Init /\ [][NextVerify]_vars

---------------------------------------------------------------------------
(* Properties of the claim lifecycle.                                      *)

(* The claims that hold prep_CID, whatever their status. *)
BoundClaims(c, prep_CID) == {id \in DOMAIN c : c[id].prepCID = prep_CID}

\* C21: an OpenClaim is rejected with "Claim already exists" only while its
\* prepCID is bound to a claim in status OPEN or DISPUTING; when every
\* earlier claim with that prepCID is FINALIZED, DISPUTED, VALIDATED or
\* CONTRADICTED, an OpenClaim with the required collateral and a sufficient
\* balance is accepted and its claim takes a fresh id.
C21_TerminalPrepCIDCanBeClaimedAgain ==
    [][last'.kind = "claim"
         => /\ outcome'.error = "Claim already exists"
                  => LiveClaims(claims, last'.prep_CID) # {}
            /\ ( /\ last'.amount = COLLATERAL_AMOUNT
                 /\ BoundClaims(claims, last'.prep_CID) # {}
                 /\ LiveClaims(claims, last'.prep_CID) = {}
                 /\ Lower(last'.sender) # LOCKED_ASSET_ADDRESS
                 /\ Balance(wallets, last'.sender) >= COLLATERAL_AMOUNT )
                  => /\ outcome'.status = "accept"
                     /\ next_claim_id \in DOMAIN claims' \ DOMAIN claims
                     /\ claims'[next_claim_id].prepCID = last'.prep_CID]_vars

\* C22: an OpenClaim whose collateral field differs from COLLATERAL_AMOUNT,
\* or whose sender's balance is below COLLATERAL_AMOUNT, is rejected: no
\* claim is created, no id consumed, no balance changes (nothing is debited,
\* nothing reaches the pool) and no user record changes.
C22_BadCollateralRejected ==
    [][( /\ last'.kind = "claim"
         /\ \/ last'.amount # COLLATERAL_AMOUNT
            \/ Balance(wallets, last'.sender) < COLLATERAL_AMOUNT )
         => /\ outcome'.status = "reject"
            /\ claims' = claims
            /\ next_claim_id' = next_claim_id
            /\ BalancesUnchanged
            /\ users' = users]_vars

(* An OpenClaim with the required collateral was refused to a sender whose *)
(* balance is one unit short of it.                                        *)
C22_Witness ==
    /\ last.kind = "claim"
    /\ last.amount = COLLATERAL_AMOUNT
    /\ outcome.status = "reject"
    /\ outcome.error = "Insufficient funds for collateral"
    /\ Balance(wallets, last.sender) = COLLATERAL_AMOUNT - 1

(* The step is a Dispute, by a sender other than the claimant, of the OPEN *)
(* claim id, with the claim's prepCID, the required stake and a balance    *)
(* that covers it.                                                         *)
DisputeByOther(id) ==
    /\ last'.kind = "dispute"
    /\ last'.claimID = id
    /\ id \in DOMAIN claims
    /\ claims[id].status = OPEN
    /\ last'.sender # claims[id].user_address
    /\ last'.amount = VALIDATOR_STAKING
    /\ last'.prep_CID = claims[id].prepCID
    /\ Balance(wallets, last'.sender) >= VALIDATOR_STAKING

\* C23: a Dispute by B on an OPEN claim of A (B # A) with the required
\* stake, the claim's prepCID and balance(B) >= stake is accepted: B is
\* debited the stake, the pool credited the same, the claim becomes
\* DISPUTING with disputing user B, and its id moves from A's open claims
\* to A's open disputes.  (The claim also says that lastUpdated becomes the
\* timestamp of the input.)
C23_DisputeSucceeds ==
    [][\A id \in ClaimIDs :
         DisputeByOther(id)
         => LET A == claims[id].user_address
                B == last'.sender
            IN  /\ outcome'.status = "accept"
                /\ Delta(Lower(B)) = - VALIDATOR_STAKING
                /\ Delta(LOCKED_ASSET_ADDRESS) = VALIDATOR_STAKING
                /\ claims'[id].status = DISPUTING
                /\ claims'[id].disputing_user_address = B
                /\ A \in DOMAIN users
                      => /\ id \notin Ids(users'[A].open_claims)
                         /\ id \in Ids(users'[A].open_disputes)]_vars

(* The step is a Dispute that breaks one of the requirements: the balance  *)
(* or the stake, the existence of the claim, its prepCID, or the           *)
(* disputing party being another than the claimant.                        *)
DisputeWithDefect ==
    /\ last'.kind = "dispute"
    /\ \/ Balance(wallets, last'.sender) < VALIDATOR_STAKING
       \/ last'.amount # VALIDATOR_STAKING
       \/ last'.claimID \notin DOMAIN claims
       \/ /\ last'.claimID \in DOMAIN claims
          /\ \/ last'.prep_CID # claims[last'.claimID].prepCID
             \/ last'.sender = claims[last'.claimID].user_address

(* The Dispute passes the checks of balance and stake. *)
DisputeStakeInOrder ==
    /\ Balance(wallets, last'.sender) >= VALIDATOR_STAKING
    /\ last'.amount = VALIDATOR_STAKING

\* C24: a Dispute is rejected, no stake debited and no claim or user record
\* changed, when the disputing party is the claimant ("Cannot dispute own
\* claim"), the claim id does not exist ("No claim found"), the prepCID
\* differs from the claim's, the stake differs from VALIDATOR_STAKING, or
\* the balance is below VALIDATOR_STAKING.
C24_DisputeRejected ==
    [][DisputeWithDefect
         => /\ outcome'.status = "reject"
            /\ BalancesUnchanged
            /\ claims' = claims
            /\ users' = users
            /\ (DisputeStakeInOrder /\ last'.claimID \notin DOMAIN claims)
                  => outcome'.error = "No claim found"
            /\ ( /\ DisputeStakeInOrder
                 /\ last'.claimID \in DOMAIN claims
                 /\ last'.prep_CID = claims[last'.claimID].prepCID
                 /\ last'.sender = claims[last'.claimID].user_address )
                  => outcome'.error = "Cannot dispute own claim"]_vars

(* What does hold of a Dispute that breaks a requirement: it is not        *)
(* accepted and nothing changes.  Holds under Spec and SpecClaims.         *)
DisputeWithDefectChangesNothing ==
    [][DisputeWithDefect
         => /\ outcome'.status # "accept"
            /\ BalancesUnchanged
            /\ claims' = claims
            /\ users' = users]_vars

\* C25: for a DISPUTING claim the clock runs from the dispute: a Finalize is
\* accepted exactly when its timestamp is >= lastUpdated (set by the
\* dispute) + DISPUTE_EPOCH, and then the status becomes DISPUTED, the
\* disputing user is credited the collateral from the pool, the claimant's
\* total_claims and total_disputes each rise by 1 and the id leaves the
\* claimant's open disputes, and the disputing user's total_disputes and
\* won_disputes each rise by 1.
C25_FinalizeDisputing ==
    [][\A id \in ClaimIDs :
         ( /\ last'.kind = "finalize"
           /\ last'.claimID = id
           /\ id \in DOMAIN claims
           /\ claims[id].status = DISPUTING )
         => LET A == claims[id].user_address
                B == claims[id].disputing_user_address
                due == last'.timestamp >= claims[id].lastUpdated + DISPUTE_EPOCH
            IN  /\ (outcome'.status = "accept") <=> due
                /\ due
                    => /\ claims'[id].status = DISPUTED
                       /\ Delta(Lower(B)) = COLLATERAL_AMOUNT
                       /\ Delta(LOCKED_ASSET_ADDRESS) = - COLLATERAL_AMOUNT
                       /\ A \in DOMAIN users
                             => /\ users'[A].total_claims = users[A].total_claims + 1
                                /\ users'[A].total_disputes = users[A].total_disputes + 1
                                /\ id \notin Ids(users'[A].open_disputes)
                       /\ B \in DOMAIN users
                             => /\ users'[B].total_disputes = users[B].total_disputes + 1
                                /\ users'[B].won_disputes = users[B].won_disputes + 1]_vars

\* C26: a Validate by the claimant with a matching hash on an OPEN claim
\* without a disputing user, once accepted, has set the status to VALIDATED
\* and credited the claimant exactly collateral + incentive from the pool:
\* the stake is part of the payout only when a disputing user exists.  (The
\* claim also says that the input is accepted.)
C26_ValidatedWithoutDisputePaysNoStake ==
    [][\A id \in ClaimIDs :
         ( /\ ValidateByClaimant(id, OPEN)
           /\ claims[id].disputing_user_address = None
           /\ ValidateClaim(last'.data, last'.proof)
           /\ outcome'.status = "accept" )
         => LET A == claims[id].user_address
            IN  /\ claims'[id].status = VALIDATED
                /\ Delta(Lower(A)) = COLLATERAL_AMOUNT + CLAIM_INCENTIVE
                /\ Delta(LOCKED_ASSET_ADDRESS) = - (COLLATERAL_AMOUNT + CLAIM_INCENTIVE)]_vars

\* C27: claim ids are assigned in strictly increasing order, one per
\* successful creation: a step adds at most one claim, under the id that
\* next_claim_id held, which is above every id in use, and raises
\* next_claim_id by one then and only then; an OpenClaim that is not
\* accepted consumes no id; no step removes a claim from the registry.
C27_ClaimIdsMonotonic ==
    [][/\ \A id \in DOMAIN claims : id < next_claim_id
       /\ DOMAIN claims \subseteq DOMAIN claims'
       /\ DOMAIN claims' \ DOMAIN claims \subseteq {next_claim_id}
       /\ next_claim_id' = IF DOMAIN claims' = DOMAIN claims
                           THEN next_claim_id ELSE next_claim_id + 1
       /\ DOMAIN claims' # DOMAIN claims => last'.kind \in {"claim", "claims.create"}
       /\ (last'.kind \in {"claim", "claims.create"} /\ outcome'.status = "accept")
             => DOMAIN claims' = DOMAIN claims \cup {next_claim_id}
       /\ (last'.kind = "claim" /\ outcome'.status # "accept")
             => DOMAIN claims' = DOMAIN claims /\ next_claim_id' = next_claim_id]_vars

(* Two claims hold the ids 1 and 2, and an OpenClaim that was not accepted *)
(* has left the next id at 3.                                              *)
C27_Witness ==
    /\ last.kind = "claim"
    /\ outcome.status # "accept"
    /\ DOMAIN claims = {1, 2}
    /\ next_claim_id = 3

Terminal(c) == {id \in DOMAIN c : c[id].status \notin {OPEN, DISPUTING}}

\* C29: in every reachable state no id of a terminal claim is in a user's
\* open claims or open disputes: an id leaves the open sets when its claim
\* reaches a terminal status.  (The claim says more: an id is in a user's
\* open claims exactly when that user is the claimant and the status is
\* OPEN, in the open disputes exactly when the status is DISPUTING, and
\* never in both.)
C29_NoTerminalClaimInOpenSets ==
    \A u \in DOMAIN users :
        /\ Ids(users[u].open_claims) \cap Terminal(claims) = {}
        /\ Ids(users[u].open_disputes) \cap Terminal(claims) = {}

---------------------------------------------------------------------------
(* Properties of Withdraw.                                                 *)

\* C30: a Withdraw of amount by a sender is accepted only if 0 < amount <=
\* balance(sender); when accepted, the sender's balance has gone down by
\* exactly amount, no other balance has changed, and exactly one voucher
\* was emitted, a transfer of amount of the token to the sender; when not
\* accepted, no voucher was emitted and no balance has changed.
C30_WithdrawEmitsOneVoucher ==
    [][last'.kind = "withdraw"
         => IF outcome'.status = "accept"
            THEN /\ 0 < last'.amount
                 /\ last'.amount <= Balance(wallets, last'.sender)
                 /\ \A a \in Accounts :
                       Delta(a) = IF a = Lower(last'.sender) THEN - last'.amount ELSE 0
                 /\ vouchers' = <<Voucher(TOKEN_ERC20_ADDRESS, last'.sender, last'.amount)>>
            ELSE /\ vouchers' = <<>>
                 /\ BalancesUnchanged]_vars

(* A sender has withdrawn its whole balance, under the mixed-case spelling *)
(* of its address, and the one voucher names that sender and amount.       *)
C30_Witness ==
    /\ last.kind = "withdraw"
    /\ outcome.status = "accept"
    /\ last.sender = "0xAA"
    /\ last.amount = COLLATERAL_AMOUNT
    /\ Balance(wallets, last.sender) = 0
    /\ Len(vouchers) = 1
    /\ vouchers[1].receiver = last.sender
    /\ vouchers[1].amount = last.amount

---------------------------------------------------------------------------
(* Properties of Deposit.                                                  *)

\* C31: a deposit of a token other than TOKEN_ERC20_ADDRESS credits no
\* account and creates no user record, and emits exactly one voucher, a
\* transfer of the whole deposited amount of that token back to the
\* depositor; a deposit of TOKEN_ERC20_ADDRESS credits the depositor by
\* exactly the amount, changes no other balance and emits no voucher.
C31_ForeignTokenReturned ==
    [][last'.kind = "deposit"
         => IF Lower(last'.token) # Lower(TOKEN_ERC20_ADDRESS)
            THEN /\ wallets' = wallets
                 /\ users' = users
                 /\ vouchers' = <<Voucher(last'.token, last'.sender, last'.amount)>>
            ELSE /\ \A a \in Accounts :
                       Delta(a) = IF a = Lower(last'.sender) THEN last'.amount ELSE 0
                 /\ last'.amount > 0 => outcome'.status = "accept"
                 /\ vouchers' = <<>>]_vars

(* A depositor that holds a balance of the accepted token has deposited    *)
(* another token, and one voucher returns that deposit.                    *)
C31_Witness ==
    /\ last.kind = "deposit"
    /\ last.token = OtherToken
    /\ last.amount = VALIDATOR_STAKING
    /\ vouchers = <<Voucher(OtherToken, last.sender, VALIDATOR_STAKING)>>
    /\ last.sender \in DOMAIN users
    /\ Balance(wallets, last.sender) = COLLATERAL_AMOUNT

---------------------------------------------------------------------------
(* Properties of the locked pool.                                          *)

Pool == Balance(wallets, LOCKED_ASSET_ADDRESS)

(* What a claim has in escrow: its collateral while OPEN, its collateral   *)
(* and the stake while DISPUTING, nothing once terminal.                   *)
EscrowOf(claim) ==
    IF claim.status = OPEN THEN COLLATERAL_AMOUNT
    ELSE IF claim.status = DISPUTING THEN COLLATERAL_AMOUNT + VALIDATOR_STAKING
    ELSE 0

RECURSIVE EscrowOver(_, _)
EscrowOver(c, S) ==
    IF S = {} THEN 0
    ELSE LET id == CHOOSE x \in S : TRUE
         IN  EscrowOf(c[id]) + EscrowOver(c, S \ {id})

(* The escrow of all claims. *)
Escrow(c) == EscrowOver(c, DOMAIN c)

(* The largest payout a Finalize or Validate on the claim is to make:      *)
(* collateral + incentive for an OPEN claim, collateral + stake +          *)
(* incentive for a DISPUTING one.                                          *)
LargestPayout(claim) ==
    IF claim.status = OPEN THEN COLLATERAL_AMOUNT + CLAIM_INCENTIVE
    ELSE IF claim.status = DISPUTING
         THEN COLLATERAL_AMOUNT + VALIDATOR_STAKING + CLAIM_INCENTIVE
    ELSE 0

\* C32: the pool is solvent for its obligations: in every reachable state
\* in which the pool holds the escrow of the claims, the balance of the pool
\* is at least the largest payout that a Finalize or Validate on any OPEN
\* or DISPUTING claim is to make.  (The claim says so of every reachable
\* state, and that no such Finalize or Validate fails with "insufficient
\* funds" on the pool.)
C32_PoolSolvent ==
    Pool >= Escrow(claims)
      => \A id \in DOMAIN claims : Pool >= LargestPayout(claims[id])

\* C33: no escrow is stranded: the balance of the pool equals the escrow of
\* the claims (collateral of every OPEN or DISPUTING claim, plus the stake
\* of every DISPUTING one), so that the pool is empty when every claim is
\* terminal.  Stated for the Claim trigger: a Claim trigger handled in a
\* state where the equation holds leaves a state where it holds.
C33_NoEscrowStranded ==
    [][(last'.kind = "claim" /\ Pool = Escrow(claims))
         => Pool' = Escrow(claims')]_vars

\* C34: the balance of the pool is never changed by a Deposit or a Withdraw
\* trigger, whatever the depositor or the sender, the pool address itself
\* included.  (The claim also says that funds leave the pool only in the
\* step in which a claim moves from OPEN or DISPUTING to a terminal status,
\* at most once per claim, to the claimant, the disputant or the treasury.)
C34_PoolUntouchedByDepositAndWithdraw ==
    [][last'.kind \in {"deposit", "withdraw"} => Pool' = Pool]_vars

---------------------------------------------------------------------------
(* Properties of the user counters.                                        *)

(* The claims of claimant u that ended in the claimant's favour. *)
ClaimsWonBy(u) ==
    {id \in DOMAIN claims : /\ claims[id].user_address = u
                            /\ claims[id].status \in {FINALIZED, VALIDATED}}

(* The claims that ended in favour of their disputing user u. *)
DisputesWonBy(u) ==
    {id \in DOMAIN claims : /\ claims[id].disputing_user_address = u
                            /\ claims[id].status \in {DISPUTED, CONTRADICTED}}

\* C35: the counters of the users agree with the registry: for every user
\* record, correct_claims is the number of FINALIZED or VALIDATED claims of
\* that claimant, won_disputes is the number of DISPUTED or CONTRADICTED
\* claims of that disputing user, correct_claims <= total_claims and
\* won_disputes <= total_disputes.
C35_CountersAgreeWithRegistry ==
    \A u \in DOMAIN users :
        /\ users[u].correct_claims = Cardinality(ClaimsWonBy(u))
        /\ users[u].won_disputes = Cardinality(DisputesWonBy(u))
        /\ users[u].correct_claims <= users[u].total_claims
        /\ users[u].won_disputes <= users[u].total_disputes

---------------------------------------------------------------------------
(* Properties of the disputing user.                                       *)

(* The disputing user is there exactly when the status says so. *)
DisputantMatchesStatus(claim) ==
    /\ claim.status \in {OPEN, FINALIZED} => claim.disputing_user_address = None
    /\ claim.status \in {DISPUTING, DISPUTED}
         => /\ claim.disputing_user_address # None
            /\ claim.disputing_user_address # claim.user_address

\* C36: an OPEN or FINALIZED claim has no disputing user, a DISPUTING or
\* DISPUTED claim has one that is not its claimant, and no payout is
\* addressed to the disputing user of a claim that has none: whatever a
\* Validate draws from the pool for a claim without disputing user is
\* credited to its claimant.
C36_NoPayoutToMissingDisputant ==
    [][/\ \A id \in DOMAIN claims' : DisputantMatchesStatus(claims'[id])
       /\ \A id \in DOMAIN claims :
              ( /\ last'.kind = "validate"
                /\ last'.claimID = id
                /\ claims[id].disputing_user_address = None
                /\ Pool' < Pool )
                => Delta(Lower(claims[id].user_address)) = Pool - Pool']_vars

---------------------------------------------------------------------------
(* Properties of address identity.                                         *)

\* C37: one address is one identity under every spelling, in the ownership
\* check of Validate as in the ledger: a Validate is never refused as
\* "not the claimant's" when its sender is the claimant's address spelled
\* in another case.  (The claim says the same of the user table and of the
\* self-dispute check.)
C37_OwnerUnderAnySpelling ==
    [][( /\ last'.kind = "validate"
         /\ last'.claimID \in DOMAIN claims
         /\ Lower(last'.sender) = Lower(claims[last'.claimID].user_address) )
         => outcome'.error # "Can only validate own claims"]_vars

---------------------------------------------------------------------------
(* Finalize under fair delivery: the registry harness with Finalize        *)
(* triggers that never stop coming.  The claims are made through           *)
(* claims_db as in SpecClaims; the Finalize inputs are outside the count   *)
(* of inputs, which bounds the other triggers alone.                       *)

(* Timestamps past lastUpdated + DISPUTE_EPOCH of every claim (lastUpdated *)
(* is a wall-clock reading, at most 1); successive inputs carry different  *)
(* timestamps.                                                             *)
DueTimestamps == {DISPUTE_EPOCH + 1, DISPUTE_EPOCH + 2}

(* handle_finalize for a claim of the registry, named by its id and its    *)
(* prep_CID, at a timestamp past its deadline.                             *)
FinalizeDue(claimID) ==
    /\ claimID \in DOMAIN claims
    /\ \E timestamp \in DueTimestamps :
          LET input == [NoInput EXCEPT !.kind = "finalize", !.timestamp = timestamp,
                                       !.claimID = claimID,
                                       !.prep_CID = claims[claimID].prepCID]
              r == HandleFinalize(Db, claimID, claims[claimID].prepCID, timestamp)
          IN  /\ wallets' = r.db.wallets
              /\ users' = r.db.users
              /\ claims' = r.db.claims
              /\ next_claim_id' = r.db.next_claim_id
              /\ last' = input
              /\ outcome' = [status |-> r.status, error |-> r.error]
              /\ vouchers' = r.vouchers
              /\ UNCHANGED input_index

NextFinalize ==
    \/ \E u \in Claimants, p \in PrepCIDs, ts \in Timestamps, wall \in WallClock :
          RegistryCreateClaim(u, p, ts, wall)
    \/ \E id \in 1..MaxInputs, u \in Claimants, wall \in WallClock :
          RegistryInitiateDispute(id, u, wall)
    \/ \E id \in 1..MaxInputs : FinalizeDue(id)

(* Weak fairness on the Finalize of every claim: the trigger is enabled    *)
(* for as long as the claim exists, and whoever runs the dApp keeps        *)
(* sending it.                                                             *)
SpecFinalize ==
    /\ Init
    /\ [][NextFinalize]_vars
    /\ \A id \in 1..MaxInputs : WF_vars(FinalizeDue(id))

\* C38: under Finalize triggers that keep being delivered with timestamps
\* past lastUpdated + epoch, every OPEN or DISPUTING claim eventually
\* reaches a terminal status.  (The claim adds that its escrow is then paid
\* out.)
C38_FinalizeEventuallyTerminates ==
    \A id \in 1..MaxInputs :
        (id \in DOMAIN claims) ~> (id \in Terminal(claims))

====
